---- MODULE Spec2Model ----
(***************************************************************************)
(* thread_utils::JobPool (include/job_pool.h, src/job_pool.cc): a fixed    *)
(* set of worker threads popping jobs from a std::queue guarded by         *)
(* queue_mutex_ and condition_.  Every thread is a process with a program  *)
(* counter; one action is one step a thread takes between two points where *)
(* another thread can observe or change what it reads.  stop_flag_,        *)
(* paused_ and active_jobs_ are atomics accessed with and without the      *)
(* mutex; last_exception_ is a plain field written without the mutex: the  *)
(* racing accesses are the interleavings of the steps below.               *)
(***************************************************************************)
EXTENDS Integers, Sequences, FiniteSets, TLC

\* Model bounds.
MaxThreads == 2        \* largest num_threads given to the constructor
NumClients == 2        \* threads calling the public methods
MaxJobs == 2           \* jobs submitted during one behaviour
MaxBatch == 2          \* longest span given to AddJobs
MaxCalls == 4          \* calls of public methods during one behaviour
MaxLiveCalls == 3      \* the same, in the behaviours checked for liveness

NoThread == 0          \* queue_mutex_ not held
NoJob == 0             \* an empty std::function
NoException == 0       \* a null std::exception_ptr

\* Thread ids a worker can have.
Workers == 1..MaxThreads

Spawned_OneMore(n) == 1..(n + 1)

\* JobPool::JobPool: threads_(num_threads), each started on WorkerThread
Spawned(n) == 1..n

Clients == {100 + i : i \in 1..NumClients}
Threads == Workers \cup Clients
JobIds == 1..MaxJobs

VARIABLES
  num_threads,      \* the constructor's argument, threads_.size()
  jobs_,            \* std::queue<std::function<void()>>: sequence of job ids
  queue_mutex_,     \* the thread holding the mutex, or NoThread
  stop_flag_,       \* std::atomic<bool>
  paused_,          \* std::atomic<bool>
  active_jobs_,     \* std::atomic<size_t>
  last_exception_,  \* std::exception_ptr: the job whose failure it holds
  pc,               \* pc[t]: where thread t stands
  job,              \* job[w]: the local `job` of worker w's loop iteration
  call,             \* call[c]: the jobs client c's AddJob/AddJobs call carries
  left,             \* left[c]: jobs of an AddJobs span not yet emplaced
  nextJob,          \* number of jobs created so far
  calls,            \* number of public-method calls begun so far
  \* history, read by no action guard
  started,          \* started[j]: how many times job j's body was entered
  finished,         \* jobs whose body has ended (returned or thrown)
  failed,           \* jobs whose body ended by throwing
  returned,         \* jobs whose AddJob/AddJobs call has returned
  snap,             \* snap[c]: `returned` when c's WaitForAllJobs call began
  obs,              \* obs[c]: a job had failed when c's wait saw the drained predicate
  result,           \* result[c]: how c's last WaitForAllJobs ended
  everPaused,       \* Pause() has been called
  caught,           \* jobs whose failure a worker's handler recorded, in order
  before            \* before[c]: the queue when c's AddJobs call took the mutex

vars == <<num_threads, jobs_, queue_mutex_, stop_flag_, paused_, active_jobs_, last_exception_,
          pc, job, call, left, nextJob, calls, started, finished, failed, returned,
          snap, obs, result, everPaused, caught, before>>

poolVars == <<num_threads, jobs_, queue_mutex_, stop_flag_, paused_, active_jobs_, last_exception_>>
histVars == <<started, finished, failed, returned, snap, obs, result, everPaused, caught,
             before>>
clientVars == <<call, left, nextJob, calls>>

\* State after JobPool::JobPool: every worker thread at the top of WorkerThread.
Init ==
  /\ num_threads \in 1..MaxThreads
  /\ jobs_ = << >>
  /\ queue_mutex_ = NoThread
  /\ stop_flag_ = FALSE
  /\ paused_ = FALSE
  /\ active_jobs_ = 0
  /\ last_exception_ = NoException
  /\ pc = [t \in Threads |-> IF t \in Clients THEN "idle"
                           ELSE IF t \in Spawned(num_threads) THEN "loop" ELSE "unused"]
  /\ job = [w \in Workers |-> NoJob]
  /\ call = [c \in Clients |-> {}]
  /\ left = [c \in Clients |-> 0]
  /\ nextJob = 0
  /\ calls = 0
  /\ started = [j \in JobIds |-> 0]
  /\ finished = {}
  /\ failed = {}
  /\ returned = {}
  /\ snap = [c \in Clients |-> {}]
  /\ obs = [c \in Clients |-> FALSE]
  /\ result = [c \in Clients |-> "none"]
  /\ everPaused = FALSE
  /\ caught = << >>
  /\ before = [c \in Clients |-> << >>]

----
\* condition_: the threads blocked in condition_.wait
Waiting == {t \in Threads : pc[t] \in {"wait", "wwait"}}

\* A woken thread re-acquires the mutex and evaluates its predicate again.
Woken(t) == IF t \in Workers THEN "relock" ELSE "wlock"

\* condition_.notify_all() by thread t, which moves on to `next`
NotifyAll(t, next) ==
  pc' = [u \in Threads |-> IF u = t THEN next
                           ELSE IF u \in Waiting THEN Woken(u) ELSE pc[u]]

\* condition_.notify_one() by thread t: one blocked thread, if any, is woken
NotifyOne(t, next) ==
  IF Waiting = {}
    THEN pc' = [pc EXCEPT ![t] = next]
    ELSE \E u \in Waiting : pc' = [pc EXCEPT ![t] = next, ![u] = Woken(u)]

\* condition_.wait may return without a notification
SpuriousWake(t) ==
  /\ t \in Waiting
  /\ pc' = [pc EXCEPT ![t] = Woken(t)]
  /\ UNCHANGED <<poolVars, job, clientVars, histVars>>

\* size_t arithmetic of active_jobs_--: 0 wraps to SIZE_MAX, written -1 here
Decrement(n) == IF n > 0 THEN n - 1 ELSE -1

----
\* WorkerThread, src/job_pool.cc:50-74.  stop_flag_ and jobs_ change only
\* under queue_mutex_, so consecutive reads of them by the holder of the mutex
\* are one step; paused_ changes without the mutex, so each read of it is a
\* step of its own.

\* condition_.wait: a woken worker re-acquires the mutex
W_Relock(w) ==
  /\ pc[w] = "relock"
  /\ queue_mutex_ = NoThread
  /\ queue_mutex_' = w
  /\ pc' = [pc EXCEPT ![w] = "pred"]
  /\ UNCHANGED <<num_threads, jobs_, stop_flag_, paused_, active_jobs_, last_exception_,
                 job, clientVars, histVars>>

\* lines 51-54: while (!stop_flag_.load()), then unique_lock.  A worker that
\* read stop_flag_ false and finds it set once it holds the mutex returns at
\* line 58 without touching anything, which is the first branch taken later.
W_Loop(w) ==
  /\ pc[w] = "loop"
  /\ IF stop_flag_
       THEN /\ pc' = [pc EXCEPT ![w] = "exited"]
            /\ UNCHANGED queue_mutex_
       ELSE /\ queue_mutex_ = NoThread
            /\ queue_mutex_' = w
            /\ pc' = [pc EXCEPT ![w] = "pred"]
  /\ UNCHANGED <<num_threads, jobs_, stop_flag_, paused_, active_jobs_, last_exception_,
                 job, clientVars, histVars>>

\* lines 55-58: the wait predicate, evaluated with the mutex held, and
\* if (stop_flag_.load()) return;
W_Pred(w) ==
  /\ pc[w] = "pred"
  /\ IF stop_flag_
       THEN /\ queue_mutex_' = NoThread
            /\ pc' = [pc EXCEPT ![w] = "exited"]
       ELSE /\ pc' = [pc EXCEPT ![w] =
                        IF jobs_ /= << >> \/ ~paused_ THEN "chk_paused" ELSE "block"]
            /\ UNCHANGED queue_mutex_
  /\ UNCHANGED <<num_threads, jobs_, stop_flag_, paused_, active_jobs_, last_exception_,
                 job, clientVars, histVars>>

\* condition_.wait: release the mutex and block, atomically
W_Block(w) ==
  /\ pc[w] = "block"
  /\ queue_mutex_' = NoThread
  /\ pc' = [pc EXCEPT ![w] = "wait"]
  /\ UNCHANGED <<num_threads, jobs_, stop_flag_, paused_, active_jobs_, last_exception_,
                 job, clientVars, histVars>>

W_ChkPaused_Negated(w) ==
  /\ pc[w] = "chk_paused"
  /\ IF ~paused_
       THEN /\ queue_mutex_' = NoThread
            /\ pc' = [pc EXCEPT ![w] = "loop"]
       ELSE /\ pc' = [pc EXCEPT ![w] = "chk_empty"]
            /\ UNCHANGED queue_mutex_
  /\ UNCHANGED <<num_threads, jobs_, stop_flag_, paused_, active_jobs_, last_exception_,
                 job, clientVars, histVars>>

\* line 59: if (paused_.load()) continue;
W_ChkPaused(w) ==
  /\ pc[w] = "chk_paused"
  /\ IF paused_
       THEN /\ queue_mutex_' = NoThread
            /\ pc' = [pc EXCEPT ![w] = "loop"]
       ELSE /\ pc' = [pc EXCEPT ![w] = "chk_empty"]
            /\ UNCHANGED queue_mutex_
  /\ UNCHANGED <<num_threads, jobs_, stop_flag_, paused_, active_jobs_, last_exception_,
                 job, clientVars, histVars>>

W_Pop_KeepLock(w) ==
  /\ pc[w] = "chk_empty"
  /\ IF jobs_ = << >>
       THEN /\ pc' = [pc EXCEPT ![w] = "loop"]
            /\ queue_mutex_' = NoThread
            /\ UNCHANGED <<num_threads, jobs_, job>>
       ELSE /\ job' = [job EXCEPT ![w] = Head(jobs_)]
            /\ jobs_' = Tail(jobs_)
            /\ pc' = [pc EXCEPT ![w] = "inc"]
            /\ UNCHANGED queue_mutex_
  /\ UNCHANGED <<num_threads, stop_flag_, paused_, active_jobs_, last_exception_,
                 clientVars, histVars>>

W_Pop_NoRemove(w) ==
  /\ pc[w] = "chk_empty"
  /\ IF jobs_ = << >>
       THEN /\ pc' = [pc EXCEPT ![w] = "loop"]
            /\ UNCHANGED <<num_threads, jobs_, job>>
       ELSE /\ job' = [job EXCEPT ![w] = Head(jobs_)]
            /\ jobs_' = jobs_
            /\ pc' = [pc EXCEPT ![w] = "inc"]
  /\ queue_mutex_' = NoThread
  /\ UNCHANGED <<num_threads, stop_flag_, paused_, active_jobs_, last_exception_,
                 clientVars, histVars>>

W_Pop_Back(w) ==
  /\ pc[w] = "chk_empty"
  /\ IF jobs_ = << >>
       THEN /\ pc' = [pc EXCEPT ![w] = "loop"]
            /\ UNCHANGED <<jobs_, job>>
       ELSE /\ job' = [job EXCEPT ![w] = jobs_[Len(jobs_)]]
            /\ jobs_' = SubSeq(jobs_, 1, Len(jobs_) - 1)
            /\ pc' = [pc EXCEPT ![w] = "inc"]
  /\ queue_mutex_' = NoThread
  /\ UNCHANGED <<num_threads, stop_flag_, paused_, active_jobs_, last_exception_,
                 clientVars, histVars>>

\* lines 60-63: if (jobs_.empty()) continue; job = std::move(jobs_.front());
\* jobs_.pop(); } releases the mutex
W_Pop(w) ==
  /\ pc[w] = "chk_empty"
  /\ IF jobs_ = << >>
       THEN /\ pc' = [pc EXCEPT ![w] = "loop"]
            /\ UNCHANGED <<num_threads, jobs_, job>>
       ELSE /\ job' = [job EXCEPT ![w] = Head(jobs_)]
            /\ jobs_' = Tail(jobs_)
            /\ pc' = [pc EXCEPT ![w] = "inc"]
  /\ queue_mutex_' = NoThread
  /\ UNCHANGED <<num_threads, stop_flag_, paused_, active_jobs_, last_exception_,
                 clientVars, histVars>>

W_Begin_NoInc(w) ==
  /\ pc[w] = "inc"
  /\ active_jobs_' = active_jobs_
  /\ started' = [started EXCEPT ![job[w]] = @ + 1]
  /\ pc' = [pc EXCEPT ![w] = "body"]
  /\ UNCHANGED <<num_threads, jobs_, queue_mutex_, stop_flag_, paused_, last_exception_, job,
                 clientVars, finished, failed, returned, snap, obs, result,
                 everPaused, caught, before>>

\* lines 64-66: active_jobs_++, then job() is entered
W_Begin(w) ==
  /\ pc[w] = "inc"
  /\ active_jobs_' = active_jobs_ + 1
  /\ started' = [started EXCEPT ![job[w]] = @ + 1]
  /\ pc' = [pc EXCEPT ![w] = "body"]
  /\ UNCHANGED <<num_threads, jobs_, queue_mutex_, stop_flag_, paused_, last_exception_, job,
                 clientVars, finished, failed, returned, snap, obs, result,
                 everPaused, caught, before>>

W_End_AlwaysCatch(w) ==
  /\ pc[w] = "body"
  /\ finished' = finished \cup {job[w]}
  /\ \E throws \in BOOLEAN :
       /\ failed' = IF throws THEN failed \cup {job[w]} ELSE failed
       /\ pc' = [pc EXCEPT ![w] = "catch"]
  /\ UNCHANGED <<poolVars, job, clientVars, started, returned, snap, obs, result,
                 everPaused, caught, before>>

W_End_NoHandler(w) ==
  /\ pc[w] = "body"
  /\ finished' = finished \cup {job[w]}
  /\ \E throws \in BOOLEAN :
       /\ failed' = IF throws THEN failed \cup {job[w]} ELSE failed
       /\ pc' = [pc EXCEPT ![w] = IF throws THEN "exited" ELSE "dec"]
  /\ UNCHANGED <<poolVars, job, clientVars, started, returned, snap, obs, result,
                 everPaused, caught, before>>

\* lines 65-67: job() returns, or throws into catch (...)
W_End(w) ==
  /\ pc[w] = "body"
  /\ finished' = finished \cup {job[w]}
  /\ \E throws \in BOOLEAN :
       /\ failed' = IF throws THEN failed \cup {job[w]} ELSE failed
       /\ pc' = [pc EXCEPT ![w] = IF throws THEN "catch" ELSE "dec"]
  /\ UNCHANGED <<poolVars, job, clientVars, started, returned, snap, obs, result,
                 everPaused, caught, before>>

W_Catch_KeepFirst(w) ==
  /\ pc[w] = "catch"
  /\ last_exception_' = IF last_exception_ = NoException THEN job[w] ELSE last_exception_
  /\ caught' = Append(caught, job[w])
  /\ pc' = [pc EXCEPT ![w] = "dec"]
  /\ UNCHANGED <<num_threads, jobs_, queue_mutex_, stop_flag_, paused_, active_jobs_,
                 job, clientVars, started, finished, failed, returned, snap, obs,
                 result, everPaused, before>>

W_Catch_NoRecord(w) ==
  /\ pc[w] = "catch"
  /\ pc' = [pc EXCEPT ![w] = "dec"]
  /\ UNCHANGED <<poolVars, job, clientVars, histVars>>

\* line 68: last_exception_ = std::current_exception(); written without the
\* mutex.  A read or another write racing with it sees or leaves the value of
\* one of the two orders, which are the two interleavings of this step.
W_Catch(w) ==
  /\ pc[w] = "catch"
  /\ last_exception_' = job[w]
  /\ caught' = Append(caught, job[w])
  /\ pc' = [pc EXCEPT ![w] = "dec"]
  /\ UNCHANGED <<num_threads, jobs_, queue_mutex_, stop_flag_, paused_, active_jobs_,
                 job, clientVars, started, finished, failed, returned, snap, obs,
                 result, everPaused, before>>

\* line 71: active_jobs_--
W_Dec(w) ==
  /\ pc[w] = "dec"
  /\ active_jobs_' = Decrement(active_jobs_)
  /\ pc' = [pc EXCEPT ![w] = "notify"]
  /\ UNCHANGED <<num_threads, jobs_, queue_mutex_, stop_flag_, paused_, last_exception_,
                 job, clientVars, histVars>>

\* line 72: condition_.notify_all(); the iteration ends and `job` is destroyed
W_Notify(w) ==
  /\ pc[w] = "notify"
  /\ NotifyAll(w, "loop")
  /\ job' = [job EXCEPT ![w] = NoJob]
  /\ UNCHANGED <<poolVars, clientVars, histVars>>

WorkerStep(w) ==
  \/ W_Loop(w) \/ W_Pred(w) \/ W_Block(w) \/ W_Relock(w) \/ W_ChkPaused(w) \/ W_Pop(w)
  \/ W_Begin(w) \/ W_End(w) \/ W_Catch(w) \/ W_Dec(w) \/ W_Notify(w)

----
\* The destructor has begun: no other public method may be called any more.
Destructing == \E c \in Clients : pc[c] \in {"d_notify", "d_join", "destroyed"}

CanCall(c) == pc[c] = "idle" /\ ~Destructing /\ calls < MaxCalls

\* A client starting a call forgets how its last WaitForAllJobs ended.
Forget(c) ==
  /\ calls' = calls + 1
  /\ snap' = [snap EXCEPT ![c] = {}]
  /\ obs' = [obs EXCEPT ![c] = FALSE]
  /\ result' = [result EXCEPT ![c] = "none"]

\* AddJob's effect on the queue, include/job_pool.h:32: jobs_.emplace(job)
AddJobEffect(q, j) == Append(q, j)

\* AddJob, include/job_pool.h:29-33: lock_guard, jobs_.emplace, unlock
C_AddJob(c) ==
  /\ CanCall(c)
  /\ queue_mutex_ = NoThread
  /\ nextJob < MaxJobs
  /\ jobs_' = AddJobEffect(jobs_, nextJob + 1)
  /\ call' = [call EXCEPT ![c] = {nextJob + 1}]
  /\ nextJob' = nextJob + 1
  /\ pc' = [pc EXCEPT ![c] = "add_notify"]
  /\ Forget(c)
  /\ UNCHANGED <<num_threads, queue_mutex_, stop_flag_, paused_, active_jobs_, last_exception_,
                 job, left, started, finished, failed, returned,
                 everPaused, caught, before>>

\* AddJob, include/job_pool.h:34-36: condition_.notify_one(), then return
C_AddJobNotify(c) ==
  /\ pc[c] = "add_notify"
  /\ NotifyOne(c, "idle")
  /\ returned' = returned \cup call[c]
  /\ call' = [call EXCEPT ![c] = {}]
  /\ UNCHANGED <<poolVars, job, left, nextJob, calls, started, finished, failed, snap, obs,
                 result, everPaused, caught, before>>

C_AddJobsLock_NoLock(c) ==
  /\ CanCall(c)
  /\ \E k \in 1..MaxBatch :
       /\ nextJob + k <= MaxJobs
       /\ call' = [call EXCEPT ![c] = (nextJob + 1)..(nextJob + k)]
       /\ left' = [left EXCEPT ![c] = k]
       /\ nextJob' = nextJob + k
  /\ before' = [before EXCEPT ![c] = jobs_]
  /\ pc' = [pc EXCEPT ![c] = "batch"]
  /\ Forget(c)
  /\ UNCHANGED <<num_threads, jobs_, queue_mutex_, stop_flag_, paused_, active_jobs_,
                 last_exception_, job, started, finished, failed, returned, everPaused, caught>>

\* AddJobs, include/job_pool.h:40-42: lock_guard for a span of k jobs
C_AddJobsLock(c) ==
  /\ CanCall(c)
  /\ queue_mutex_ = NoThread
  /\ \E k \in 1..MaxBatch :
       /\ nextJob + k <= MaxJobs
       /\ call' = [call EXCEPT ![c] = (nextJob + 1)..(nextJob + k)]
       /\ left' = [left EXCEPT ![c] = k]
       /\ nextJob' = nextJob + k
  /\ queue_mutex_' = c
  /\ before' = [before EXCEPT ![c] = jobs_]
  /\ pc' = [pc EXCEPT ![c] = "batch"]
  /\ Forget(c)
  /\ UNCHANGED <<num_threads, jobs_, stop_flag_, paused_, active_jobs_, last_exception_, job,
                 started, finished, failed, returned, everPaused, caught>>

\* The job of c's span that the loop emplaces next.
NextOfSpan(c) == CHOOSE j \in call[c] : Cardinality({i \in call[c] : i >= j}) = left[c]

C_AddJobsEmplace_Front(c) ==
  /\ pc[c] = "batch"
  /\ left[c] > 0
  /\ jobs_' = <<NextOfSpan(c)>> \o jobs_
  /\ left' = [left EXCEPT ![c] = @ - 1]
  /\ UNCHANGED <<num_threads, queue_mutex_, stop_flag_, paused_, active_jobs_, last_exception_,
                 pc, job, call, nextJob, calls, histVars>>

\* AddJobs, include/job_pool.h:43-45: one jobs_.emplace of the loop
C_AddJobsEmplace(c) ==
  /\ pc[c] = "batch"
  /\ left[c] > 0
  /\ jobs_' = Append(jobs_, NextOfSpan(c))
  /\ left' = [left EXCEPT ![c] = @ - 1]
  /\ UNCHANGED <<num_threads, queue_mutex_, stop_flag_, paused_, active_jobs_, last_exception_,
                 pc, job, call, nextJob, calls, histVars>>

\* AddJobs, include/job_pool.h:46: the lock_guard's scope ends
C_AddJobsUnlock(c) ==
  /\ pc[c] = "batch"
  /\ left[c] = 0
  /\ queue_mutex_' = NoThread
  /\ before' = [before EXCEPT ![c] = << >>]
  /\ pc' = [pc EXCEPT ![c] = "batch_notify"]
  /\ UNCHANGED <<num_threads, jobs_, stop_flag_, paused_, active_jobs_, last_exception_,
                 job, clientVars, started, finished, failed, returned, snap, obs,
                 result, everPaused, caught>>

\* AddJobs, include/job_pool.h:47-49: condition_.notify_all(), then return
C_AddJobsNotify(c) ==
  /\ pc[c] = "batch_notify"
  /\ NotifyAll(c, "idle")
  /\ returned' = returned \cup call[c]
  /\ call' = [call EXCEPT ![c] = {}]
  /\ UNCHANGED <<poolVars, job, left, nextJob, calls, started, finished, failed, snap, obs,
                 result, everPaused, caught, before>>

\* GetQueueSize, src/job_pool.cc:37: lock_guard
C_SizeLock(c) ==
  /\ CanCall(c)
  /\ queue_mutex_ = NoThread
  /\ queue_mutex_' = c
  /\ pc' = [pc EXCEPT ![c] = "size"]
  /\ Forget(c)
  /\ UNCHANGED <<num_threads, jobs_, stop_flag_, paused_, active_jobs_, last_exception_,
                 job, call, left, nextJob, started, finished, failed, returned,
                 everPaused, caught, before>>

\* The value a GetQueueSize call standing at line 38 returns.
QueueSize == Len(jobs_)

\* GetQueueSize, src/job_pool.cc:38-39: return jobs_.size(); the lock_guard
\* is released
C_SizeReturn(c) ==
  /\ pc[c] = "size"
  /\ queue_mutex_' = NoThread
  /\ pc' = [pc EXCEPT ![c] = "idle"]
  /\ UNCHANGED <<num_threads, jobs_, stop_flag_, paused_, active_jobs_, last_exception_,
                 job, clientVars, histVars>>

\* WaitForAllJobs, src/job_pool.cc:27: unique_lock
C_WaitLock(c) ==
  /\ CanCall(c)
  /\ queue_mutex_ = NoThread
  /\ queue_mutex_' = c
  /\ pc' = [pc EXCEPT ![c] = "wpred"]
  /\ calls' = calls + 1
  /\ snap' = [snap EXCEPT ![c] = returned]
  /\ obs' = [obs EXCEPT ![c] = FALSE]
  /\ result' = [result EXCEPT ![c] = "waiting"]
  /\ UNCHANGED <<num_threads, jobs_, stop_flag_, paused_, active_jobs_, last_exception_, job,
                 call, left, nextJob, started, finished, failed, returned,
                 everPaused, caught, before>>

C_WaitPred_Inverted(c) ==
  /\ pc[c] = "wpred"
  /\ IF ~(jobs_ = << >> /\ active_jobs_ = 0)
       THEN /\ pc' = [pc EXCEPT ![c] = "wexc"]
            /\ obs' = [obs EXCEPT ![c] = (failed /= {})]
       ELSE /\ pc' = [pc EXCEPT ![c] = "wblock"]
            /\ UNCHANGED obs
  /\ UNCHANGED <<poolVars, job, clientVars, started, finished, failed, returned,
                 snap, result, everPaused, caught, before>>

\* WaitForAllJobs, src/job_pool.cc:28-30: the drained predicate, mutex held
C_WaitPred(c) ==
  /\ pc[c] = "wpred"
  /\ IF jobs_ = << >> /\ active_jobs_ = 0
       THEN /\ pc' = [pc EXCEPT ![c] = "wexc"]
            /\ obs' = [obs EXCEPT ![c] = (failed /= {})]
       ELSE /\ pc' = [pc EXCEPT ![c] = "wblock"]
            /\ UNCHANGED obs
  /\ UNCHANGED <<poolVars, job, clientVars, started, finished, failed, returned,
                 snap, result, everPaused, caught, before>>

\* condition_.wait: release the mutex and block, atomically
C_WaitBlock(c) ==
  /\ pc[c] = "wblock"
  /\ queue_mutex_' = NoThread
  /\ pc' = [pc EXCEPT ![c] = "wwait"]
  /\ UNCHANGED <<num_threads, jobs_, stop_flag_, paused_, active_jobs_, last_exception_,
                 job, clientVars, histVars>>

\* condition_.wait: a woken waiter re-acquires the mutex
C_WaitRelock(c) ==
  /\ pc[c] = "wlock"
  /\ queue_mutex_ = NoThread
  /\ queue_mutex_' = c
  /\ pc' = [pc EXCEPT ![c] = "wpred"]
  /\ UNCHANGED <<num_threads, jobs_, stop_flag_, paused_, active_jobs_, last_exception_,
                 job, clientVars, histVars>>

\* The failure a WaitForAllJobs call standing at line 32 rethrows: the one
\* exception last_exception_ holds.
Rethrown == last_exception_

C_WaitExc_Clearing(c) ==
  /\ pc[c] = "wexc"
  /\ result' = [result EXCEPT ![c] =
                  IF last_exception_ /= NoException THEN "raised" ELSE "returned"]
  /\ last_exception_' = NoException
  /\ queue_mutex_' = NoThread
  /\ pc' = [pc EXCEPT ![c] = "idle"]
  /\ UNCHANGED <<num_threads, jobs_, stop_flag_, paused_, active_jobs_,
                 job, clientVars, started, finished, failed, returned, snap, obs,
                 everPaused, caught, before>>

\* WaitForAllJobs, src/job_pool.cc:31-34: rethrow last_exception_ or return;
\* either way the unique_lock is released
C_WaitExc(c) ==
  /\ pc[c] = "wexc"
  /\ result' = [result EXCEPT ![c] =
                  IF last_exception_ /= NoException THEN "raised" ELSE "returned"]
  /\ queue_mutex_' = NoThread
  /\ pc' = [pc EXCEPT ![c] = "idle"]
  /\ UNCHANGED <<num_threads, jobs_, stop_flag_, paused_, active_jobs_, last_exception_,
                 job, clientVars, started, finished, failed, returned, snap, obs,
                 everPaused, caught, before>>

C_Pause_Flush(c) ==
  /\ CanCall(c)
  /\ paused_' = TRUE
  /\ everPaused' = TRUE
  /\ jobs_' = << >>
  /\ Forget(c)
  /\ UNCHANGED <<num_threads, queue_mutex_, stop_flag_, active_jobs_, last_exception_,
                 pc, job, call, left, nextJob, started, finished, failed, returned,
                 caught, before>>

\* Pause, src/job_pool.cc:41-43: paused_.store(true), no mutex
C_Pause(c) ==
  /\ CanCall(c)
  /\ paused_' = TRUE
  /\ everPaused' = TRUE
  /\ Forget(c)
  /\ UNCHANGED <<num_threads, jobs_, queue_mutex_, stop_flag_, active_jobs_, last_exception_,
                 pc, job, call, left, nextJob, started, finished, failed, returned,
                 caught, before>>

\* Resume, src/job_pool.cc:46: paused_.store(false), no mutex
C_ResumeStore(c) ==
  /\ CanCall(c)
  /\ paused_' = FALSE
  /\ pc' = [pc EXCEPT ![c] = "res_notify"]
  /\ Forget(c)
  /\ UNCHANGED <<num_threads, jobs_, queue_mutex_, stop_flag_, active_jobs_, last_exception_,
                 job, call, left, nextJob, started, finished, failed, returned,
                 everPaused, caught, before>>

\* Resume, src/job_pool.cc:47: condition_.notify_all()
C_ResumeNotify(c) ==
  /\ pc[c] = "res_notify"
  /\ NotifyAll(c, "idle")
  /\ UNCHANGED <<poolVars, job, clientVars, histVars>>

D_SetStop_NoLock(c) ==
  /\ CanCall(c)
  /\ \A d \in Clients : pc[d] = "idle"
  /\ stop_flag_' = TRUE
  /\ pc' = [pc EXCEPT ![c] = "d_notify"]
  /\ Forget(c)
  /\ UNCHANGED <<num_threads, jobs_, queue_mutex_, paused_, active_jobs_, last_exception_,
                 job, call, left, nextJob, started, finished, failed, returned,
                 everPaused, caught, before>>

\* ~JobPool, src/job_pool.cc:14-17: stop_flag_.store(true) under a lock_guard.
\* The pool is destroyed by a thread while no other call is in progress.
D_SetStop(c) ==
  /\ CanCall(c)
  /\ \A d \in Clients : pc[d] = "idle"
  /\ queue_mutex_ = NoThread
  /\ stop_flag_' = TRUE
  /\ pc' = [pc EXCEPT ![c] = "d_notify"]
  /\ Forget(c)
  /\ UNCHANGED <<num_threads, jobs_, queue_mutex_, paused_, active_jobs_, last_exception_,
                 job, call, left, nextJob, started, finished, failed, returned,
                 everPaused, caught, before>>

D_Notify_One(c) ==
  /\ pc[c] = "d_notify"
  /\ NotifyOne(c, "d_join")
  /\ UNCHANGED <<poolVars, job, clientVars, histVars>>

\* ~JobPool, src/job_pool.cc:18: condition_.notify_all()
D_Notify(c) ==
  /\ pc[c] = "d_notify"
  /\ NotifyAll(c, "d_join")
  /\ UNCHANGED <<poolVars, job, clientVars, histVars>>

\* ~JobPool, src/job_pool.cc:19-23: join every worker thread
D_Join(c) ==
  /\ pc[c] = "d_join"
  /\ \A w \in Spawned(num_threads) \cap Workers : pc[w] = "exited"
  /\ pc' = [pc EXCEPT ![c] = "destroyed"]
  /\ UNCHANGED <<poolVars, job, clientVars, histVars>>

\* The steps of a call in progress.
ClientStep(c) ==
  \/ C_AddJobNotify(c) \/ C_AddJobsEmplace(c) \/ C_AddJobsUnlock(c)
  \/ C_AddJobsNotify(c) \/ C_WaitPred(c) \/ C_WaitBlock(c) \/ C_WaitRelock(c)
  \/ C_WaitExc(c) \/ C_SizeReturn(c) \/ C_ResumeNotify(c) \/ D_Notify(c) \/ D_Join(c)

\* The first step of a call.
ClientCall(c) ==
  \/ C_AddJob(c) \/ C_AddJobsLock(c) \/ C_WaitLock(c) \/ C_SizeLock(c) \/ C_Pause(c)
  \/ C_ResumeStore(c) \/ D_SetStop(c)

Next ==
  \/ \E w \in Workers : WorkerStep(w)
  \/ \E c \in Clients : ClientCall(c)
  \/ \E c \in Clients : ClientStep(c)
  \/ \E t \in Threads : SpuriousWake(t)

Spec == Init /\ [][Next]_vars

\* Every thread that can take a step eventually takes one (a thread contending
\* for the mutex eventually gets it); no client is obliged to start a call and
\* no wait is obliged to wake spuriously.
Fairness ==
  /\ \A w \in Workers : SF_vars(WorkerStep(w))
  /\ \A c \in Clients : SF_vars(ClientStep(c))

FairSpec == Spec /\ Fairness

\* The fair behaviours with at most MaxLiveCalls calls.  No step of a thread
\* that Fairness obliges changes `calls`, so the restriction takes away no
\* obliged step.
LiveNext == Next /\ calls' <= MaxLiveCalls

LiveSpec == Init /\ [][LiveNext]_vars /\ Fairness

----
TypeOK ==
  /\ queue_mutex_ \in Threads \cup {NoThread}
  /\ stop_flag_ \in BOOLEAN /\ paused_ \in BOOLEAN
  /\ active_jobs_ \in -1..MaxJobs
  /\ last_exception_ \in JobIds \cup {NoException}
  /\ nextJob \in 0..MaxJobs
  /\ calls \in 0..MaxCalls

----
\* Workers inside a job body.
Executing == {w \in Workers : pc[w] = "body"}

\* Workers still in the worker loop.
InLoop == {w \in Workers : pc[w] \notin {"exited", "unused"}}

Queued == {jobs_[i] : i \in 1..Len(jobs_)}

\* C1 (Completion): when a WaitForAllJobs call returns without raising on a
\* pool that was never paused and is not being torn down, every job whose
\* AddJob/AddJobs call returned before the wait began has finished executing
\* and has executed exactly once.
C1_Completion ==
  \A c \in Clients :
    (result[c] = "returned" /\ ~everPaused /\ ~stop_flag_)
      => \A j \in snap[c] : j \in finished /\ started[j] = 1

\* C2 (Drain-wait termination): on a pool never paused and not torn down,
\* whose job bodies terminate and whose submissions stop, every WaitForAllJobs
\* call in progress eventually ends.
C2_DrainWaitTerminates ==
  \A c \in Clients :
    (result[c] = "waiting" /\ ~everPaused /\ ~stop_flag_)
      ~> (result[c] /= "waiting" \/ everPaused \/ stop_flag_)

\* C3 (Pause gate): while paused_ is set (Pause() has returned and Resume() has
\* not been called since), no step removes a job from the queue and no step
\* enters a job body.
C3_PauseGate ==
  [][paused_ => (Len(jobs_') >= Len(jobs_) /\ started' = started)]_vars

\* C4 (Resume liveness): once Resume() has returned, with no later Pause() and
\* no teardown, every job in the queue is eventually executed.
C4_ResumeLiveness ==
  \A j \in JobIds :
    (j \in Queued /\ everPaused /\ ~paused_ /\ \A c \in Clients : pc[c] /= "res_notify")
      ~> (j \in finished \/ paused_ \/ stop_flag_)

\* C5 (Concurrency bound): a pool constructed with num_threads workers never
\* has more than num_threads job bodies executing at once.
C5_ConcurrencyBound == Cardinality(Executing) <= num_threads

\* C5 witness: every worker executes a job while another job is still queued.
C5_Witness == Cardinality(Executing) = num_threads /\ jobs_ /= << >>

\* C6 (Failure surfacing): a WaitForAllJobs call that saw the drained predicate
\* after some job body had ended by throwing does not return normally.
C6_FailureSurfacing == \A c \in Clients : obs[c] => result[c] /= "returned"

\* C6 witness: such a call has rethrown.
C6_Witness == \E c \in Clients : obs[c] /\ result[c] = "raised"

\* C7 as claimed (Clear on surfacing): the step in which a WaitForAllJobs call
\* rethrows leaves last_exception_ null.
C7_ClearOnSurfacing ==
  [][\A c \in Clients :
       (pc[c] = "wexc" /\ result'[c] = "raised") => last_exception_' = NoException]_vars

\* C7 as amended (No clear on surfacing): once a failure is recorded it stays
\* recorded, also across the step that rethrows it, and every WaitForAllJobs
\* call that sees the drained predicate while it is recorded rethrows.
C7_NeverCleared ==
  [][/\ last_exception_ /= NoException => last_exception_' /= NoException
     /\ \A c \in Clients :
          (pc[c] = "wexc" /\ pc'[c] = "idle" /\ last_exception_ /= NoException)
            => result'[c] = "raised"]_vars

\* C7 witness: one failed job, and two WaitForAllJobs calls have rethrown.
C7_Witness ==
  /\ Cardinality(failed) = 1
  /\ \A c \in Clients : result[c] = "raised"

\* C8 (Failure isolation): when a drain ends (returning or rethrowing) with
\* some job having failed, every job submitted before the drain began has
\* been executed.
C8_FailureIsolation ==
  \A c \in Clients :
    (result[c] \in {"returned", "raised"} /\ failed /= {} /\ ~everPaused /\ ~stop_flag_)
      => snap[c] \subseteq finished

\* C9 (Worker survival): until teardown begins exactly num_threads workers are
\* in the worker loop, whatever number of jobs have failed.
C9_WorkerSurvival ==
  ~stop_flag_ => (InLoop = 1..num_threads)

\* C9 witness: a job has failed and its worker has gone on to the next
\* iteration of the loop.
C9_Witness ==
  /\ ~stop_flag_
  /\ \E j \in failed : \A w \in Workers : job[w] /= j

\* C10 (Teardown abandonment): once stop_flag_ is set no step removes a job
\* from the queue, and no job in the queue has been or is then executed.
C10_TeardownAbandonment ==
  [][stop_flag_ => (jobs_' = jobs_ /\ \A j \in Queued : started'[j] = 0)]_vars

\* C10 witness: the destructor has returned and jobs are left in the queue.
C10_Witness ==
  /\ jobs_ /= << >>
  /\ \E c \in Clients : pc[c] = "destroyed"

\* C11 (Teardown termination): once the destructor has set stop_flag_, with
\* every running job body terminating, the destructor eventually returns, with
\* every spawned worker exited, whatever the queue holds and paused or not.
C11_TeardownTerminates ==
  stop_flag_ ~> (/\ \E c \in Clients : pc[c] = "destroyed"
                 /\ \A w \in Workers : pc[w] \in {"exited", "unused"})

\* C11 witness: the destructor has returned on a paused pool with an empty
\* queue, where idle workers block in condition_.wait.
C11_Witness ==
  /\ paused_ /\ jobs_ = << >>
  /\ \E c \in Clients : pc[c] = "destroyed"

\* Jobs are numbered in the order of their jobs_.emplace: a job's number is
\* taken in the step that emplaces it, or, for a span, while the mutex that
\* covers all its emplaces is held.
\* C12 (FIFO dequeue order): a worker that dequeues takes the job that was
\* enqueued before every job still in the queue, so a job enqueued earlier is
\* dequeued earlier, across all workers.
C12_FifoDequeue ==
  [][\A w \in Workers :
       (pc[w] = "chk_empty" /\ pc'[w] = "inc")
         => /\ \A a \in Queued : job'[w] <= a
            /\ \A a \in JobIds : a < job'[w] => a \notin Queued']_vars

\* C12 witness: job 1 was dequeued first and is not yet running, while job 2,
\* dequeued after it by another worker, has already finished.
C12_Witness ==
  /\ 2 \in finished
  /\ \E w \in Workers : job[w] = 1 /\ pc[w] = "inc"

\* An AddJobs call that has emplaced some but not all jobs of its span.
PartialBatch(c) == pc[c] = "batch" /\ 0 < left[c] /\ left[c] < Cardinality(call[c])

\* Threads standing where they read jobs_ with the mutex held: GetQueueSize
\* at its return, a worker from its wait predicate to its dequeue, a waiter at
\* the drained predicate.
Observing ==
  {t \in Threads : pc[t] \in {"size", "pred", "block", "chk_paused", "chk_empty",
                              "wpred", "wblock"}}

\* C13 (Batch atomicity): while an AddJobs call has appended only part of its
\* span, no other thread stands at a read of the queue under the mutex: a
\* GetQueueSize call or a worker's dequeue sees none or all of the span.
C13_BatchAtomic ==
  \A c \in Clients : PartialBatch(c) => Observing \subseteq {c}

\* C13 witness: a GetQueueSize call reads the queue holding a whole span of
\* two jobs whose AddJobs call has not yet returned.
C13_Witness ==
  \E c, d \in Clients :
    /\ pc[c] = "size" /\ QueueSize = 2
    /\ pc[d] = "batch_notify" /\ Cardinality(call[d]) = 2

\* C14 (Submit liveness): while Pause has never been called and teardown has
\* not begun, every job standing in the queue (enqueued by AddJob, or by
\* AddJobs) is eventually dequeued and its body run by some worker, or else
\* Pause is called or teardown begins; no WaitForAllJobs call is needed.
C14_SubmitLiveness ==
  \A j \in JobIds :
    (j \in Queued /\ ~everPaused /\ ~stop_flag_)
      ~> (j \in finished \/ everPaused \/ stop_flag_)

\* C14 witness: the job of the only call made so far, an AddJob that has not
\* yet reached its notify_one, has already been executed.
C14_Witness ==
  /\ calls = 1 /\ ~everPaused /\ ~stop_flag_
  /\ \E c \in Clients : pc[c] = "add_notify" /\ call[c] /= {} /\ call[c] \subseteq finished

\* C15 (Repeatable use): with no failing job, on a pool never paused and not
\* being torn down, every WaitForAllJobs return finds each job submitted before
\* that wait (this cycle's and the earlier cycles') run exactly once, and finds
\* all num_threads workers still in the worker loop.
C15_RepeatableUse ==
  \A c \in Clients :
    (result[c] = "returned" /\ failed = {} /\ ~everPaused /\ ~stop_flag_)
      => /\ InLoop = 1..num_threads
         /\ \A j \in snap[c] : started[j] = 1 /\ j \in finished

\* C16 (Idle drain): as long as no job has been submitted, no WaitForAllJobs
\* call blocks on the condition variable and none raises.
C16_IdleDrain ==
  nextJob = 0
    => \A c \in Clients :
         /\ pc[c] \notin {"wblock", "wwait", "wlock"}
         /\ result[c] /= "raised"

\* C16 witness: a WaitForAllJobs call has returned on a pool to which nothing
\* was submitted.
C16_Witness ==
  /\ nextJob = 0 /\ jobs_ = << >>
  /\ \E c \in Clients : result[c] = "returned" /\ pc[c] = "idle"

\* C17 (Submit while paused): on a paused pool an AddJob call finds its
\* emplace step enabled whenever the mutex is free, the step appends exactly
\* the one new job at the tail of the queue, and the call's remaining step
\* (notify_one and return) is always enabled; a Pause call leaves the queue
\* as it was.
C17_SubmitWhilePaused ==
  [][/\ \A c \in Clients :
          /\ (paused_ /\ CanCall(c) /\ queue_mutex_ = NoThread /\ nextJob < MaxJobs)
               => ENABLED C_AddJob(c)
          /\ (paused_ /\ pc[c] = "idle" /\ pc'[c] = "add_notify")
               => /\ jobs_' = Append(jobs_, nextJob')
                  /\ nextJob' \notin Queued
          /\ pc[c] = "add_notify" => ENABLED C_AddJobNotify(c)
     /\ (paused_' /\ calls' = calls + 1 /\ pc' = pc) => jobs_' = jobs_]_vars

\* C17 witness: the only worker blocked on an empty queue of a paused pool;
\* the second call, an AddJob, has since appended its job.
C17_Witness ==
  /\ num_threads = 1 /\ pc[1] = "wait"
  /\ paused_ /\ calls = 2 /\ jobs_ = <<1>>
  /\ \E c \in Clients : pc[c] = "add_notify"

\* C18 (No spurious failure): while no job has let a failure escape its body
\* (a job that raises and catches inside itself returns normally),
\* last_exception_ is null and no WaitForAllJobs call has raised; and
\* last_exception_ only ever holds the failure of a job whose failure escaped.
C18_NoSpuriousFailure ==
  /\ failed = {}
       => /\ last_exception_ = NoException
          /\ \A c \in Clients : result[c] /= "raised"
  /\ last_exception_ /= NoException => last_exception_ \in failed

\* C18 witness: a job has run, none has failed, and a WaitForAllJobs call has
\* returned normally.
C18_Witness ==
  /\ failed = {} /\ finished /= {}
  /\ \E c \in Clients : result[c] = "returned" /\ snap[c] /= {}

\* C19 (Drained predicate covers in-flight work): whenever the queue is empty
\* and active_jobs_ is 0, no worker holds a job it has dequeued and whose body
\* has not yet finished.
C19_DrainedCoversInFlight ==
  (jobs_ = << >> /\ active_jobs_ = 0)
    => \A w \in Workers : job[w] = NoJob \/ job[w] \in finished

\* C20 (Worker blocks instead of spinning): a worker's condition wait
\* completes (its predicate is found true, without stop_flag_ ending the
\* thread) only in a state where stop_flag_ holds or paused_ is false and the
\* queue is non-empty.
C20_BlocksInsteadOfSpinning ==
  [][\A w \in Workers :
       (pc[w] = "pred" /\ pc'[w] = "chk_paused")
         => (stop_flag_ \/ (~paused_ /\ jobs_ /= << >>))]_vars

\* C21 (Single critical section): while a thread holds queue_mutex_ and takes
\* no step itself, no other thread's step changes the queue, stop_flag_,
\* paused_ or last_exception_: these four are read and written only by the
\* holder of the mutex.
C21_SingleCriticalSection ==
  [][\A t \in Threads :
       (queue_mutex_ = t /\ queue_mutex_' = t /\ pc'[t] = pc[t] /\ left' = left)
         => <<jobs_, stop_flag_, paused_, last_exception_>>'
              = <<jobs_, stop_flag_, paused_, last_exception_>>]_vars

\* C22 (No execution under the lock): a worker inside a job body does not
\* hold queue_mutex_.
C22_NoExecutionUnderLock ==
  \A w \in Executing : queue_mutex_ /= w

\* C22 witness: one worker is inside a job body while the other worker holds
\* the mutex at its dequeue and a client has just been through AddJob's
\* critical section.
C22_Witness ==
  /\ \E w, v \in Workers : pc[w] = "body" /\ pc[v] = "chk_empty" /\ queue_mutex_ = v
  /\ \E c \in Clients : pc[c] = "add_notify"

\* C23 (Most recent failure wins): last_exception_ is null until a failure
\* is recorded and from then on holds the failure recorded last; a
\* WaitForAllJobs call past the drained predicate raises exactly when a
\* failure has been recorded, and what it rethrows is that last recorded
\* failure alone.
C23_MostRecentWins ==
  /\ caught = << >> => last_exception_ = NoException
  /\ caught /= << >> => last_exception_ = caught[Len(caught)]
  /\ \A c \in Clients :
       /\ (pc[c] = "wexc" /\ caught /= << >>) => Rethrown = caught[Len(caught)]
       /\ result[c] = "raised" => caught /= << >>

\* C23 witness: two failures recorded, the later one of job 1, and a
\* WaitForAllJobs call about to rethrow.
C23_Witness ==
  /\ caught = <<2, 1>>
  /\ \E c \in Clients : pc[c] = "wexc"

\* Workers between active_jobs_++ (line 64) and active_jobs_-- (line 71).
Counted == {w \in Workers : pc[w] \in {"body", "catch", "dec"}}

\* C24 (Active count accuracy): active_jobs_ equals the number of workers
\* that have incremented it for their current job and not yet decremented it;
\* it lies in 0..num_threads and the unsigned counter never wraps below zero.
C24_ActiveCountAccurate ==
  /\ active_jobs_ = Cardinality(Counted)
  /\ active_jobs_ >= 0 /\ active_jobs_ <= num_threads

\* C24 witness: the counter is back at 0 after both jobs have run on two
\* workers: one worker has finished its iteration and the other has just
\* decremented.
C24_Witness ==
  /\ num_threads = 2 /\ active_jobs_ = 0 /\ finished = JobIds
  /\ \E w, v \in Workers : pc[w] = "notify" /\ job[w] = 2 /\ pc[v] = "loop" /\ w /= v

\* Jobs of an AddJobs span that its loop has not yet emplaced.
Pending ==
  UNION {{j \in call[c] : Cardinality({i \in call[c] : i >= j}) <= left[c]} : c \in Clients}

\* Jobs that have been emplaced into the queue at some time.
Submitted == (1..nextJob) \ Pending

\* How many entries of the queue hold job j.
TimesQueued(j) == Cardinality({i \in 1..Len(jobs_) : jobs_[i] = j})

\* Workers whose local `job` is j.
Holders(j) == {w \in Workers : job[w] = j}

Conserved ==
  \A j \in JobIds :
    /\ started[j] <= 1
    /\ Cardinality(Holders(j)) <= 1
    /\ IF j \in Submitted
         THEN \/ TimesQueued(j) = 1 /\ Holders(j) = {} /\ j \notin finished /\ started[j] = 0
              \/ TimesQueued(j) = 0 /\ Holders(j) /= {} /\ j \notin finished
              \/ TimesQueued(j) = 0 /\ j \in finished /\ started[j] = 1
         ELSE TimesQueued(j) = 0 /\ Holders(j) = {} /\ j \notin finished /\ started[j] = 0

\* C25 (Job conservation): at all times every submitted job is either in the
\* queue once, or held by exactly one worker with its body not yet ended, or
\* finished, and never in two of these; no job is held by two workers or has
\* its body entered twice; and each dequeue removes exactly the head of the
\* queue, which becomes the worker's job.
C25_JobConservation ==
  [][/\ Conserved /\ Conserved'
     /\ \A w \in Workers :
          (pc[w] = "chk_empty" /\ pc'[w] = "inc")
            => jobs_ = <<job'[w]>> \o jobs_']_vars

\* C25 witness: one job in the queue while the other is running on a worker.
C25_Witness ==
  /\ jobs_ = <<2>>
  /\ \E w \in Workers : job[w] = 1 /\ pc[w] = "body"

\* The jobs of a span in the order AddJobs iterates over them.
SpanOrder(S) ==
  [i \in 1..Cardinality(S) |-> CHOOSE j \in S : Cardinality({x \in S : x < j}) = i - 1]

\* The queue after AddJob(js[1]); ...; AddJob(js[k]) with nothing in between.
RECURSIVE RepeatedAddJob(_, _)
RepeatedAddJob(q, js) ==
  IF js = << >> THEN q ELSE RepeatedAddJob(AddJobEffect(q, Head(js)), Tail(js))

====
